---- MODULE Spec2Model ----
(***************************************************************************)
(* A model of the Strava synchronisation engine of NegativeSplit:          *)
(*   packages/strava-api/src/strava_api/token_manager.py  (TokenManager)   *)
(*   packages/strava-api/src/strava_api/sync_service.py   (StravaSync)     *)
(*                                                                         *)
(* Files are modelled as option values: <<>> is "the file does not exist", *)
(* <<c>> is a file with content c.  A Python dict is a TLA+ record (a      *)
(* function on its keys), so a missing key is a string outside DOMAIN.     *)
(* Exceptions are a "raised" field of an operation's result.               *)
(***************************************************************************)
EXTENDS Integers, Sequences, FiniteSets, TLC

VARIABLES
    token_file,        \* settings.TOKEN_JSON: <<>> or <<json body>>
    gpx_dir,           \* settings.GPX_DIR: file stem -> file text
    parquet,           \* self.parquet_path: <<>> or <<rows>>
    csv,               \* parquet_path.with_suffix(".csv"): <<>> or <<rows>>
    remote,            \* the remote activity list, as its pages
    pc,                \* position of the running sync()
    outcome,           \* how the last sync() ended
    token,             \* sync: token
    local_ids,         \* fetch_new_activity_list: local_ids
    new_activities,    \* fetch_new_activity_list / sync: new_activities
    page,              \* fetch_new_activity_list: page
    idx,               \* sync: activity_ind
    rate_limit_usage,  \* self.rate_limit_usage
    fetch_ret,         \* what fetch_new_activity_list returned
    gpx_at_start,      \* history: GPX_DIR when this run started
    pages_seen,        \* history: the list pages requested in this run
    tracing,           \* whether trace is recorded (never read by the program)
    trace,             \* history: requests, waits and writes of this run
    token_call,        \* history: the last get_valid_token call
    stream_call,       \* history: the last get_streams / create_gpx call
    merge_call,        \* history: the last update_local_db calls
    previous           \* history: how the run before this one went

vars == <<token_file, gpx_dir, parquet, csv, remote, pc, outcome, token,
          local_ids, new_activities, page, idx, rate_limit_usage, fetch_ret,
          gpx_at_start, pages_seen, tracing, trace, token_call, stream_call,
          merge_call, previous>>

(***************************************************************************)
(* Bounds of the model.                                                    *)
(***************************************************************************)
MaxNow == 3            \* time.time() ranges over 0..MaxNow
MaxRemoteItems == 2    \* items of the remote list (main specification)
MaxFetchPages == 2     \* pages of the remote list (discovery specification)
MaxChannelLen == 2     \* length of the position channel
MaxBatch == 2          \* rows of a batch (merge specification)

(***************************************************************************)
(* Program constants.                                                      *)
(***************************************************************************)
Lookahead == 300       \* token_manager.py:56  time.time() + 300
Cooldown == 30         \* sync_service.py:39   time.sleep(30)
HttpNotFound == 404    \* sync_service.py:155  resp.status_code == 404

(***************************************************************************)
(* Generic helpers.                                                        *)
(***************************************************************************)
Range(s) == {s[i] : i \in 1..Len(s)}

SeqsUpTo(S, n) == UNION {[1..k -> S] : k \in 0..n}

InjSeqs(S) == {s \in SeqsUpTo(S, Cardinality(S)) :
                 \A i, j \in 1..Len(s) : i # j => s[i] # s[j]}

RECURSIVE Flatten(_)
Flatten(ss) == IF ss = <<>> THEN <<>> ELSE Head(ss) \o Flatten(Tail(ss))

(***************************************************************************)
(* token_manager.py                                                        *)
(***************************************************************************)
CredKeys == {"access_token", "refresh_token", "expires_at"}

\* Variant: a missing file is read as an expired empty credential.
load_token_default(file) ==
    IF file = <<>>
    THEN [raised |-> FALSE, none |-> FALSE,
          body |-> <<[access_token |-> "", refresh_token |-> "", expires_at |-> 0]>>]
    ELSE IF CredKeys \subseteq DOMAIN file[1]
         THEN [raised |-> FALSE, none |-> FALSE, body |-> file]
         ELSE [raised |-> TRUE, none |-> FALSE, body |-> <<>>]

\* load_token: None without a file; StravaToken(**json) needs the three
\* fields and raises a validation error otherwise.
load_token(file) ==
    IF file = <<>> THEN [raised |-> FALSE, none |-> TRUE, body |-> <<>>]
    ELSE IF CredKeys \subseteq DOMAIN file[1]
         THEN [raised |-> FALSE, none |-> FALSE, body |-> file]
         ELSE [raised |-> TRUE, none |-> FALSE, body |-> <<>>]

\* save_token: the body is written as it is.
save_token(token_data) == <<token_data>>

\* Variant: a failed refresh falls back to the stored access token.
refresh_token_fallback(file, resp) ==
    IF resp.kind = "ok"
    THEN [raised |-> FALSE, error |-> "", value |-> resp.body.access_token,
          file |-> <<resp.body>>, posts |-> 1]
    ELSE [raised |-> FALSE, error |-> "", value |-> file[1].access_token,
          file |-> file, posts |-> 1]

\* refresh_token: one POST; the response body is saved verbatim and then
\* its "access_token" is read.  resp.kind = "transport_error" is httpx.post
\* raising; no status check is made on the response.
refresh_token(file, resp) ==
    IF resp.kind = "transport_error"
    THEN [raised |-> TRUE, error |-> "TransportError", value |-> "",
          file |-> file, posts |-> 1]
    ELSE IF "access_token" \in DOMAIN resp.body
         THEN [raised |-> FALSE, error |-> "", value |-> resp.body.access_token,
               file |-> save_token(resp.body), posts |-> 1]
         ELSE [raised |-> TRUE, error |-> "KeyError", value |-> "",
               file |-> save_token(resp.body), posts |-> 1]

\* Variant: every call refreshes.
ExpiresSoonAlways(expires_at, now) == TRUE

\* The refresh condition of get_valid_token (line 56), after a variant that
\* forgets the lookahead window.
ExpiresSoonNoLookahead(expires_at, now) == expires_at < now

ExpiresSoon(expires_at, now) == expires_at < now + Lookahead

get_valid_token(file, now, resp) ==
    LET loaded == load_token(file) IN
    IF loaded.raised
    THEN [raised |-> TRUE, error |-> "ValidationError", value |-> "",
          file |-> file, posts |-> 0]
    ELSE IF loaded.none
    THEN [raised |-> TRUE, error |-> "MissingStravaTokenError", value |-> "",
          file |-> file, posts |-> 0]
    ELSE IF ExpiresSoon(loaded.body[1].expires_at, now)
    THEN refresh_token(file, resp)
    ELSE [raised |-> FALSE, error |-> "", value |-> loaded.body[1].access_token,
          file |-> file, posts |-> 0]

\* Credentials and token-endpoint responses the model draws from.
Cred(a, e) == [access_token |-> a, refresh_token |-> "r", expires_at |-> e]

ErrorBody == [message |-> "Bad Request"]

ExpiryTimes == (Lookahead - 1)..(Lookahead + MaxNow + 1)

StoredCreds == {Cred(a, e) : a \in {"old", "older"}, e \in ExpiryTimes}

TokenFiles == {<<>>} \cup {<<c>> : c \in StoredCreds} \cup {<<ErrorBody>>}

Nows == 0..MaxNow

RefreshResponses ==
    {[kind |-> "ok", body |-> Cred("new", Lookahead + MaxNow + 1)],
     [kind |-> "http_error", body |-> ErrorBody],
     [kind |-> "transport_error", body |-> ErrorBody]}

\* The main specification starts from an installation whose credential is
\* about to enter the lookahead window.
MainTokenFiles == {<<Cred("old", Lookahead + 1)>>}

MainNows == {0, MaxNow}

EarlyNows == {0}

(***************************************************************************)
(* sync_service.py: values                                                 *)
(***************************************************************************)
\* str(n) of a non-negative integer: its decimal digits.
RECURSIVE Str(_)
Str(n) == IF n < 10 THEN <<n>> ELSE Append(Str(n \div 10), n % 10)

\* An activity summary as the list endpoint returns it.  start_date stands
\* for the instant its ISO-8601 text denotes.
Activity(i, n) == [id |-> i, name |-> n, start_date |-> 1000 + i]

ActivityIds == {101, 205}

Activities == {Activity(i, "run") : i \in ActivityIds}

\* The ways to cut a list into at most k non-empty pages.
RECURSIVE Splits(_, _)
Splits(s, k) ==
    IF s = <<>> THEN {<<>>}
    ELSE IF k = 0 THEN {}
    ELSE UNION {{<<SubSeq(s, 1, c)>> \o rest :
                    rest \in Splits(SubSeq(s, c + 1, Len(s)), k - 1)} :
                c \in 1..Len(s)}

\* The remote lists of the main specification: an id may come twice, on
\* one page or on two (the list shifts while it is being paged).
Remotes == UNION {Splits(s, Len(s)) : s \in SeqsUpTo(Activities, MaxRemoteItems)}

\* The page the list endpoint answers with: nothing past the last page.
PageOf(rem, p) == IF p <= Len(rem) THEN rem[p] ELSE <<>>

\* Variant: the glob matches nothing.
get_local_activity_ids_none(dir) == {}

\* get_local_activity_ids: the stems of the *.gpx files.
get_local_activity_ids(dir) == DOMAIN dir

\* The file name sync gives an activity's track: f"{activity['id']}.gpx".
GpxStem(activity) == Str(activity.id)

(***************************************************************************)
(* fetch_new_activity_list: the scan of one page (lines 110-116) and the   *)
(* loop's exit test (lines 118-119).                                       *)
(***************************************************************************)
\* Variants: the scan stops at the first known id; nothing is filtered.
scan_page_break(activities, ids) ==
    LET known == {i \in 1..Len(activities) : Str(activities[i].id) \in ids}
        first == IF known = {} THEN Len(activities) + 1
                 ELSE CHOOSE i \in known : \A j \in known : i <= j
    IN  [found_old_activity |-> known # {},
         new |-> SubSeq(activities, 1, first - 1)]

scan_page_no_filter(activities, ids) ==
    [found_old_activity |-> \E i \in 1..Len(activities) :
                                Str(activities[i].id) \in ids,
     new |-> activities]

scan_page(activities, ids) ==
    [found_old_activity |-> \E i \in 1..Len(activities) :
                                Str(activities[i].id) \in ids,
     new |-> SelectSeq(activities, LAMBDA act : Str(act.id) \notin ids)]

\* Variant: a boundary hit stops the loop only when the page had nothing new.
stop_after_page_if_nothing_new(scanned) ==
    scanned.found_old_activity /\ scanned.new = <<>>

stop_after_page(scanned) == scanned.found_old_activity

(***************************************************************************)
(* _update_rate_limits (lines 25-39).  headers is <<>> without the usage   *)
(* header, else <<[usage |-> <<short, daily>>, limit |-> <<short, daily>>]>>*)
(* used > limit * 0.9 is compared in tenths.                               *)
(***************************************************************************)
\* Variant: the cooldown starts at 90%, not above it.
_update_rate_limits_at_threshold(headers, usage) ==
    IF headers = <<>> THEN [usage |-> usage, slept |-> FALSE]
    ELSE LET h == headers[1]
             new == [k \in {"15min", "daily"} |->
                       IF k = "15min"
                       THEN [used |-> h.usage[1], limit |-> h.limit[1]]
                       ELSE [used |-> h.usage[2], limit |-> h.limit[2]]]
         IN  [usage |-> <<new>>,
              slept |-> new["15min"].used * 10 >= new["15min"].limit * 9]

_update_rate_limits(headers, usage) ==
    IF headers = <<>> THEN [usage |-> usage, slept |-> FALSE]
    ELSE LET h == headers[1]
             new == [k \in {"15min", "daily"} |->
                       IF k = "15min"
                       THEN [used |-> h.usage[1], limit |-> h.limit[1]]
                       ELSE [used |-> h.usage[2], limit |-> h.limit[2]]]
         IN  [usage |-> <<new>>,
              slept |-> new["15min"].used * 10 > new["15min"].limit * 9]

RateHeader(used) == <<[usage |-> <<used, 500>>, limit |-> <<150, 1000>>]>>

Headers == {<<>>, RateHeader(135), RateHeader(136)}

NoHeaders == {<<>>}

(***************************************************************************)
(* create_gpx (lines 161-195).  streams is the key_by_type dict: channel   *)
(* name -> [data |-> array].  The GPX document is its list of segments,    *)
(* each a list of points; "" is <<>>.                                      *)
(***************************************************************************)
\* Variants: zip without strict=True; default offsets 1..N.
create_gpx_truncating(streams, start_time) ==
    IF "latlng" \notin DOMAIN streams \/ streams["latlng"].data = <<>>
    THEN [raised |-> FALSE, exists |-> FALSE, data |-> <<>>]
    ELSE LET latlngs == streams["latlng"].data
             altitudes == IF "altitude" \in DOMAIN streams
                          THEN streams["altitude"].data
                          ELSE [i \in 1..Len(latlngs) |-> 0]
             times == IF "time" \in DOMAIN streams
                      THEN streams["time"].data
                      ELSE [i \in 1..Len(latlngs) |-> i - 1]
             shortest == CHOOSE n \in {Len(latlngs), Len(altitudes), Len(times)} :
                            \A m \in {Len(latlngs), Len(altitudes), Len(times)} : n <= m
         IN  [raised |-> FALSE, exists |-> TRUE,
              data |-> << [i \in 1..shortest |->
                             [latitude |-> latlngs[i][1],
                              longitude |-> latlngs[i][2],
                              elevation |-> altitudes[i],
                              time |-> start_time + times[i]]] >>]

create_gpx_offsets_from_one(streams, start_time) ==
    IF "latlng" \notin DOMAIN streams \/ streams["latlng"].data = <<>>
    THEN [raised |-> FALSE, exists |-> FALSE, data |-> <<>>]
    ELSE LET latlngs == streams["latlng"].data
             altitudes == IF "altitude" \in DOMAIN streams
                          THEN streams["altitude"].data
                          ELSE [i \in 1..Len(latlngs) |-> 0]
             times == IF "time" \in DOMAIN streams
                      THEN streams["time"].data
                      ELSE [i \in 1..Len(latlngs) |-> i]
         IN  IF Len(altitudes) # Len(latlngs) \/ Len(times) # Len(latlngs)
             THEN [raised |-> TRUE, exists |-> FALSE, data |-> <<>>]
             ELSE [raised |-> FALSE, exists |-> TRUE,
                   data |-> << [i \in 1..Len(latlngs) |->
                                  [latitude |-> latlngs[i][1],
                                   longitude |-> latlngs[i][2],
                                   elevation |-> altitudes[i],
                                   time |-> start_time + times[i]]] >>]

create_gpx(streams, start_time) ==
    IF "latlng" \notin DOMAIN streams \/ streams["latlng"].data = <<>>
    THEN [raised |-> FALSE, exists |-> FALSE, data |-> <<>>]
    ELSE LET latlngs == streams["latlng"].data
             altitudes == IF "altitude" \in DOMAIN streams
                          THEN streams["altitude"].data
                          ELSE [i \in 1..Len(latlngs) |-> 0]
             times == IF "time" \in DOMAIN streams
                      THEN streams["time"].data
                      ELSE [i \in 1..Len(latlngs) |-> i - 1]
         IN  IF Len(altitudes) # Len(latlngs) \/ Len(times) # Len(latlngs)
             THEN [raised |-> TRUE, exists |-> FALSE, data |-> <<>>]
             ELSE [raised |-> FALSE, exists |-> TRUE,
                   data |-> << [i \in 1..Len(latlngs) |->
                                  [latitude |-> latlngs[i][1],
                                   longitude |-> latlngs[i][2],
                                   elevation |-> altitudes[i],
                                   time |-> start_time + times[i]]] >>]

\* Channel contents the model draws from.
RECURSIVE LatlngData(_)
LatlngData(n) == IF n = 0 THEN <<>> ELSE Append(LatlngData(n - 1), <<50 + n, n>>)

RECURSIVE AltitudeData(_)
AltitudeData(n) == IF n = 0 THEN <<>> ELSE Append(AltitudeData(n - 1), 100 + n)

RECURSIVE TimeData(_)
TimeData(n) == IF n = 0 THEN <<>> ELSE Append(TimeData(n - 1), 2 * (n - 1))

\* The dict of the channels given (each <<>> for absent, <<data>> for present).
Channel(name, d) == IF d = <<>> THEN <<>> ELSE name :> [data |-> d[1]]

StreamSet(l, a, t) ==
    Channel("latlng", l) @@ Channel("altitude", a) @@ Channel("time", t)

AllStreamSets ==
    {StreamSet(l, a, t) :
        l \in {<<>>} \cup {<<LatlngData(n)>> : n \in 0..MaxChannelLen},
        a \in {<<>>} \cup {<<AltitudeData(n)>> : n \in 0..(MaxChannelLen + 1)},
        t \in {<<>>} \cup {<<TimeData(n)>> : n \in 0..(MaxChannelLen + 1)}}

MainStreamSets ==
    {StreamSet(<<>>, <<AltitudeData(1)>>, <<>>),
     StreamSet(<<LatlngData(2)>>, <<>>, <<>>),
     StreamSet(<<LatlngData(2)>>, <<AltitudeData(2)>>, <<TimeData(2)>>),
     StreamSet(<<LatlngData(2)>>, <<AltitudeData(1)>>, <<>>)}

\* What the stream endpoint can answer: a response with a status, or no
\* response at all (httpx raising a transport error).
StreamResponses(bodies, headers) ==
    {[kind |-> "response", status |-> 200, body |-> b, headers |-> h] :
        b \in bodies, h \in headers}
    \cup {[kind |-> "response", status |-> s, body |-> <<>>, headers |-> h] :
        s \in {HttpNotFound, 500}, h \in headers}
    \cup {[kind |-> "transport_error", status |-> 0, body |-> <<>>, headers |-> <<>>]}

MainStreamResponses == {r \in StreamResponses(MainStreamSets, {<<>>}) : TRUE}

AllStreamResponses == {r \in StreamResponses(AllStreamSets, Headers) : TRUE}

\* Variant: 'not found' is raised like any other failed status.
get_streams_not_found_raises(resp, usage) ==
    IF resp.kind = "transport_error"
    THEN [raised |-> TRUE, error |-> "TransportError", has_streams |-> FALSE,
          streams |-> <<>>, usage |-> usage, slept |-> FALSE]
    ELSE LET rl == _update_rate_limits(resp.headers, usage) IN
         IF resp.status >= 400
         THEN [raised |-> TRUE, error |-> "HTTPStatusError", has_streams |-> FALSE,
               streams |-> <<>>, usage |-> rl.usage, slept |-> rl.slept]
         ELSE [raised |-> FALSE, error |-> "", has_streams |-> TRUE,
               streams |-> resp.body, usage |-> rl.usage, slept |-> rl.slept]

\* get_streams (lines 142-159): the request, the quota update, the status.
get_streams(resp, usage) ==
    IF resp.kind = "transport_error"
    THEN [raised |-> TRUE, error |-> "TransportError", has_streams |-> FALSE,
          streams |-> <<>>, usage |-> usage, slept |-> FALSE]
    ELSE LET rl == _update_rate_limits(resp.headers, usage) IN
         IF resp.status = HttpNotFound
         THEN [raised |-> FALSE, error |-> "", has_streams |-> FALSE,
               streams |-> <<>>, usage |-> rl.usage, slept |-> rl.slept]
         ELSE IF resp.status >= 400
         THEN [raised |-> TRUE, error |-> "HTTPStatusError", has_streams |-> FALSE,
               streams |-> <<>>, usage |-> rl.usage, slept |-> rl.slept]
         ELSE [raised |-> FALSE, error |-> "", has_streams |-> TRUE,
               streams |-> resp.body, usage |-> rl.usage, slept |-> rl.slept]

(***************************************************************************)
(* update_local_db (lines 128-140).                                        *)
(***************************************************************************)
\* DataFrame.drop_duplicates(subset=["id"]): the first row of each id stays.
RECURSIVE drop_duplicates(_)
drop_duplicates(rows) ==
    IF rows = <<>> THEN <<>>
    ELSE LET front == drop_duplicates(SubSeq(rows, 1, Len(rows) - 1))
             last == rows[Len(rows)]
         IN  IF \E i \in 1..Len(front) : front[i].id = last.id
             THEN front ELSE Append(front, last)

\* Variant: the concatenation is not deduplicated.
final_df_no_dedup(new_data, file) ==
    IF file # <<>> THEN new_data \o file[1] ELSE new_data

final_df(new_data, file) ==
    IF file # <<>> THEN drop_duplicates(new_data \o file[1]) ELSE new_data

(***************************************************************************)
(* The state machine.  One sync() run goes                                 *)
(*   idle -StartSync-> fetch -FetchPage*-> loop -ProcessActivity*-> merge  *)
(*        -Merge-> done -Finish-> idle                                     *)
(* and ends in "done" early on an exception or when nothing is new.  The   *)
(* steps are cut at the network requests, the only suspension points.      *)
(***************************************************************************)
NoTokenCall == [called |-> FALSE]

NoStreamCall == [called |-> FALSE]

NoMergeCall == [batch |-> <<>>, before |-> <<>>, again |-> FALSE,
                before_first |-> <<>>]

\* The record of a call update_local_db(new_data): the file it found, and for
\* a call that repeats the call before it, the file that first call found.
MergeCall(new_data, again) ==
    [batch |-> <<new_data>>, before |-> <<parquet>>, again |-> again,
     before_first |-> IF again THEN merge_call.before ELSE <<>>]

Event(kind, arg) == <<kind, arg>>

(***************************************************************************)
(* Reading the trace of a run.                                             *)
(***************************************************************************)
EventsOf(kind) == SelectSeq(trace, LAMBDA e : e[1] = kind)

Count(kind) == Len(EventsOf(kind))

\* The position in trace of the k-th event of a kind.
PosOf(kind, k) ==
    CHOOSE i \in 1..Len(trace) :
        /\ trace[i][1] = kind
        /\ Cardinality({j \in 1..i : trace[j][1] = kind}) = k

\* The events that belong to the k-th stream request: from its "streams"
\* event up to the next one, or to the end of the trace.
EndOfCall(k) ==
    IF k < Count("streams") THEN PosOf("streams", k + 1) - 1 ELSE Len(trace)

EventsOfCall(k) == SubSeq(trace, PosOf("streams", k), EndOfCall(k))

StatusOfCall(k) == EventsOf("status")[k][2]

FailedStatus(status) == status >= 400 /\ status # HttpNotFound

IsRequest(e) == e[1] \in {"refresh", "list", "streams"}

\* What a run leaves for the history of the next one: whether it completed,
\* whether every stream request was answered 200, whether it wrote a track
\* and then ended in an exception, and the ids whose stream request failed
\* after a track had been written in the run.
RunSummary ==
    [completed |-> outcome \in {"synced", "up_to_date"},
     all_ok |-> \A k \in 1..Count("streams") : StatusOfCall(k) = 200,
     wrote_then_aborted |-> /\ outcome \notin {"synced", "up_to_date"}
                            /\ Count("write") >= 1,
     failed |-> {EventsOf("streams")[k][2] :
                   k \in {j \in 1..Count("streams") :
                            /\ StatusOfCall(j) \notin {200, HttpNotFound}
                            /\ \E i \in 1..PosOf("streams", j) :
                                  trace[i][1] = "write"}}]

\* Variant: a failed list request is swallowed and read as an empty page.
list_request_swallowed(kind, body) ==
    [raised |-> FALSE, error |-> "", activities |-> IF kind = "ok" THEN body ELSE <<>>]

\* One list request (lines 100-105) and the first read of its items (lines
\* 111-112): client.get raises without a response; the status of a response
\* is not looked at, and the error body of a failed request (a dict with
\* "message" and "errors") raises TypeError at act["id"].
list_request(kind, body) ==
    IF kind = "transport_error"
    THEN [raised |-> TRUE, error |-> "TransportError", activities |-> <<>>]
    ELSE IF kind = "http_error"
    THEN [raised |-> TRUE, error |-> "TypeError", activities |-> <<>>]
    ELSE [raised |-> FALSE, error |-> "", activities |-> body]

\* Variant: nothing is ever taken for "nothing new".
nothing_new_never(acts) == FALSE

\* "if not new_activities" (lines 54 and 122).
nothing_new(acts) == acts = <<>>

\* Variant: the except clause catches nothing.
caught_in_loop_nothing(error) == FALSE

\* The except clause of the per-activity loop (line 81).
caught_in_loop(error) == error = "HTTPStatusError"

\* Variant: the track file is written whether it exists or not.
may_write_always(stem, dir) == TRUE

\* "if not gpx_path.exists()" (line 77).
may_write(stem, dir) == stem \notin DOMAIN dir

\* Variant: the client is made without a with block and never closed.
with_exit_leaks(leaving) == <<>>

\* Leaving the block "with httpx.Client(...) as client" (line 50), by its
\* end, a return or an exception, closes the client.
with_exit(leaving) == IF leaving THEN <<Event("close", 0)>> ELSE <<>>

Log(events) == trace' = IF tracing THEN trace \o events ELSE trace

\* sync, lines 45-50: get_valid_token, then the client is opened and
\* fetch_new_activity_list reads the local ids (line 93).
StartSync(nows, resps) ==
    /\ pc = "idle"
    /\ \E now \in nows, resp \in resps :
         LET r == get_valid_token(token_file, now, resp) IN
         /\ r.posts = 0 => resp = CHOOSE x \in resps : TRUE
         /\ token_file' = r.file
         /\ token_call' = [called |-> TRUE, now |-> now, before |-> token_file,
                           resp |-> IF r.posts > 0 THEN <<resp>> ELSE <<>>,
                           raised |-> r.raised, error |-> r.error,
                           value |-> r.value, posts |-> r.posts]
         /\ token' = r.value
         /\ pc' = IF r.raised THEN "done" ELSE "fetch"
         /\ outcome' = IF r.raised THEN r.error ELSE "running"
         /\ Log((IF r.posts > 0 THEN <<Event("refresh", 0)>> ELSE <<>>)
                \o (IF r.raised THEN <<>> ELSE <<Event("open", 0)>>))
         /\ local_ids' = IF r.raised THEN {} ELSE get_local_activity_ids(gpx_dir)
    /\ new_activities' = <<>>
    /\ page' = 1
    /\ idx' = 1
    /\ rate_limit_usage' = <<>>
    /\ fetch_ret' = "pending"
    /\ pages_seen' = <<>>
    /\ stream_call' = NoStreamCall
    /\ merge_call' = NoMergeCall
    /\ gpx_at_start' = gpx_dir
    /\ UNCHANGED <<gpx_dir, parquet, csv, remote, tracing, previous>>

\* What a list request can end in: a page, or an exception (no response, or
\* an error body that is not a list of activities).
ListOutcomes == {"ok", "transport_error", "http_error"}

\* fetch_new_activity_list, one turn of the while loop (lines 98-120), and
\* when the loop ends lines 122-126 and sync's lines 54-55.  The response
\* headers h are never read here.
FetchPage(headers) ==
    /\ pc = "fetch"
    /\ \E kind \in ListOutcomes, h \in headers :
         LET got == list_request(kind, PageOf(remote, page)) IN
         /\ kind # "ok" => h = <<>>
         /\ IF got.raised
            THEN /\ pc' = "done"
                 /\ outcome' = got.error
                 /\ Log(<<Event("list", page), Event("list_failed", page)>>
                        \o with_exit(TRUE))
                 /\ UNCHANGED <<new_activities, page, idx, fetch_ret, pages_seen>>
            ELSE LET activities == got.activities
                     scanned == scan_page(activities, local_ids)
                     stop == activities = <<>> \/ stop_after_page(scanned)
                     fresh == IF activities = <<>> THEN new_activities
                              ELSE new_activities \o scanned.new
                     returns == stop /\ nothing_new(fresh)
                 IN  /\ pages_seen' = Append(pages_seen,
                                             [page |-> page, items |-> activities,
                                              headers |-> h])
                     /\ new_activities' = fresh
                     /\ page' = IF stop THEN page ELSE page + 1
                     /\ idx' = 1
                     /\ fetch_ret' = IF ~stop THEN "pending"
                                     ELSE IF nothing_new(fresh) THEN "None"
                                     ELSE "list"
                     /\ pc' = IF ~stop THEN "fetch"
                              ELSE IF returns THEN "done" ELSE "loop"
                     /\ outcome' = IF returns THEN "up_to_date" ELSE outcome
                     /\ Log(<<Event("list", page)>>
                            \o (IF kind # "ok"
                                THEN <<Event("list_failed", page)>> ELSE <<>>)
                            \o with_exit(returns))
    /\ UNCHANGED <<token_file, gpx_dir, parquet, csv, remote, token, local_ids,
                   rate_limit_usage, gpx_at_start, tracing, previous, token_call,
                   stream_call, merge_call>>

\* sync, one turn of the per-activity loop (lines 60-83); after the last
\* activity the with-block is left (line 84).  The trace gets the request,
\* the status of its response (0: no response), then the waits and the write.
ProcessActivity(responses) ==
    /\ pc = "loop"
    /\ idx <= Len(new_activities)
    /\ \E resp \in responses :
         LET activity == new_activities[idx]
             got == get_streams(resp, rate_limit_usage)
             builds == ~got.raised /\ got.has_streams
             built == IF builds THEN create_gpx(got.streams, activity.start_date)
                      ELSE [raised |-> FALSE, exists |-> FALSE, data |-> <<>>]
             stem == GpxStem(activity)
             writes == builds /\ ~built.raised /\ built.exists
                       /\ may_write(stem, gpx_dir)
             skipped == got.raised /\ caught_in_loop(got.error)
             aborted == (got.raised /\ ~skipped) \/ built.raised
             last == idx = Len(new_activities)
         IN  /\ rate_limit_usage' = got.usage
             /\ gpx_dir' = IF writes
                           THEN [s \in DOMAIN gpx_dir \cup {stem} |->
                                   IF s = stem THEN built.data ELSE gpx_dir[s]]
                           ELSE gpx_dir
             /\ stream_call' = [called |-> TRUE, id |-> activity.id,
                                activity |-> activity, resp |-> resp, raised |-> got.raised,
                                has_streams |-> got.has_streams,
                                built |-> builds, gpx |-> built,
                                before |-> gpx_dir]
             /\ Log(<<Event("streams", activity.id),
                      Event("status", IF resp.kind = "response"
                                      THEN resp.status ELSE 0)>>
                    \o (IF got.slept THEN <<Event("sleep", Cooldown)>> ELSE <<>>)
                    \o (IF writes THEN <<Event("write", activity.id)>> ELSE <<>>)
                    \o (IF ~aborted /\ ~skipped
                        THEN <<Event("delay", 0)>> ELSE <<>>)
                    \o with_exit(aborted \/ last))
             /\ idx' = IF aborted THEN idx ELSE idx + 1
             /\ pc' = IF aborted THEN "done" ELSE IF last THEN "merge" ELSE "loop"
             /\ outcome' = IF got.raised /\ ~skipped THEN got.error
                           ELSE IF built.raised THEN "ValueError" ELSE outcome
    /\ UNCHANGED <<token_file, parquet, csv, remote, token, local_ids,
                   new_activities, page, fetch_ret, gpx_at_start, pages_seen,
                   tracing, previous, token_call, merge_call>>

\* Variant: only the summaries of activities with a track file are merged.
update_local_db_tracks_only(new_data) ==
    LET kept == SelectSeq(new_data, LAMBDA a : GpxStem(a) \in DOMAIN gpx_dir)
        rows == final_df(kept, parquet)
    IN  /\ parquet' = <<rows>>
        /\ csv' = <<rows>>

\* update_local_db (lines 128-140): both files are rewritten.
update_local_db(new_data) ==
    LET rows == final_df(new_data, parquet) IN
    /\ parquet' = <<rows>>
    /\ csv' = <<rows>>

\* sync, line 87.
Merge ==
    /\ pc = "merge"
    /\ update_local_db(new_activities)
    /\ merge_call' = MergeCall(new_activities, FALSE)
    /\ pc' = "done"
    /\ outcome' = "synced"
    /\ Log(<<Event("merge", 0)>>)
    /\ UNCHANGED <<token_file, gpx_dir, remote, token, local_ids, new_activities,
                   page, idx, rate_limit_usage, fetch_ret, gpx_at_start,
                   pages_seen, tracing, previous, token_call, stream_call>>

\* sync has returned or raised: the process ends, its memory is gone.
Finish ==
    /\ pc = "done"
    /\ pc' = "idle"
    /\ outcome' = "none"
    /\ token' = ""
    /\ local_ids' = {}
    /\ new_activities' = <<>>
    /\ page' = 1
    /\ idx' = 1
    /\ rate_limit_usage' = <<>>
    /\ fetch_ret' = "pending"
    /\ pages_seen' = <<>>
    /\ trace' = <<>>
    /\ token_call' = NoTokenCall
    /\ stream_call' = NoStreamCall
    /\ merge_call' = NoMergeCall
    /\ gpx_at_start' = <<>>
    /\ previous' = IF tracing THEN <<RunSummary>> ELSE <<>>
    /\ UNCHANGED <<token_file, gpx_dir, parquet, csv, remote, tracing>>

\* The remote service's list changes between two runs.
RemoteChange(remotes) ==
    /\ pc = "idle"
    /\ remote' \in remotes \ {remote}
    /\ previous' = <<>>
    /\ UNCHANGED <<token_file, gpx_dir, parquet, csv, pc, outcome, token,
                   local_ids, new_activities, page, idx, rate_limit_usage,
                   fetch_ret, gpx_at_start, pages_seen, tracing, trace,
                   token_call, stream_call, merge_call>>

IdleLocals ==
    /\ pc = "idle"
    /\ outcome = "none"
    /\ token = ""
    /\ local_ids = {}
    /\ new_activities = <<>>
    /\ page = 1
    /\ idx = 1
    /\ rate_limit_usage = <<>>
    /\ fetch_ret = "pending"
    /\ gpx_at_start = <<>>
    /\ pages_seen = <<>>
    /\ trace = <<>>
    /\ token_call = NoTokenCall
    /\ stream_call = NoStreamCall
    /\ merge_call = NoMergeCall
    /\ previous = <<>>

(***************************************************************************)
(* Spec: any number of sync runs of a fresh installation against a remote  *)
(* list that changes between runs.                                         *)
(***************************************************************************)
Init ==
    /\ token_file \in MainTokenFiles
    /\ gpx_dir = <<>>
    /\ parquet = <<>>
    /\ csv = <<>>
    /\ remote \in Remotes
    /\ tracing = FALSE
    /\ IdleLocals

Next ==
    \/ StartSync(MainNows, RefreshResponses)
    \/ FetchPage(NoHeaders)
    \/ ProcessActivity(MainStreamResponses)
    \/ Merge
    \/ Finish
    \/ RemoteChange(Remotes)

Spec == Init /\ [][Next]_vars

(***************************************************************************)
(* SpecFetch: delta discovery over five ids, every set of local track      *)
(* files and every paging of a remote list of distinct ids.                *)
(***************************************************************************)
ScenarioIds == {101, 202, 203, 204, 205}

FetchActivities == {Activity(i, "run") : i \in ScenarioIds}

FetchRemotes == UNION {Splits(s, MaxFetchPages) : s \in InjSeqs(FetchActivities)}

SomeTrack == create_gpx(StreamSet(<<LatlngData(1)>>, <<>>, <<>>), 0).data

FreshCred == Cred("old", Lookahead + MaxNow + 1)

InitFetch ==
    /\ token_file = <<FreshCred>>
    /\ gpx_dir \in {[s \in S |-> SomeTrack] : S \in SUBSET {Str(i) : i \in ScenarioIds}}
    /\ parquet = <<>>
    /\ csv = <<>>
    /\ remote \in FetchRemotes
    /\ tracing = TRUE
    /\ IdleLocals

NextFetch ==
    \/ StartSync(EarlyNows, RefreshResponses)
    \/ FetchPage(NoHeaders)

SpecFetch == InitFetch /\ [][NextFetch]_vars

(***************************************************************************)
(* SpecToken: get_valid_token on every credential file, clock reading and  *)
(* answer of the token endpoint.                                           *)
(***************************************************************************)
InitToken ==
    /\ token_file \in TokenFiles
    /\ gpx_dir = <<>>
    /\ parquet = <<>>
    /\ csv = <<>>
    /\ remote = <<>>
    /\ tracing = TRUE
    /\ IdleLocals

NextToken == StartSync(Nows, RefreshResponses)

SpecToken == InitToken /\ [][NextToken]_vars

(***************************************************************************)
(* SpecGpx: one run over a one-activity list, with every stream set and    *)
(* every answer of the stream endpoint.                                    *)
(***************************************************************************)
InitGpx ==
    /\ token_file = <<FreshCred>>
    /\ gpx_dir = <<>>
    /\ parquet = <<>>
    /\ csv = <<>>
    /\ remote \in {<< <<a>> >> : a \in Activities}
    /\ tracing = TRUE
    /\ IdleLocals

NextGpx ==
    \/ StartSync(EarlyNows, RefreshResponses)
    \/ FetchPage(NoHeaders)
    \/ ProcessActivity(AllStreamResponses)

SpecGpx == InitGpx /\ [][NextGpx]_vars

(***************************************************************************)
(* SpecMerge: update_local_db called again and again, from no dataset      *)
(* file, with every batch of rows or once more with the batch of the call  *)
(* before; a row's name tells two versions of one activity apart.          *)
(***************************************************************************)
MergeRows == {Activity(i, n) : i \in ActivityIds, n \in {"run", "renamed"}}

Batches == SeqsUpTo(MergeRows, MaxBatch) \ {<<>>}

MergeBatch(batches) ==
    /\ pc = "merge"
    /\ \E b \in batches :
         /\ new_activities' = b
         /\ update_local_db(b)
         /\ merge_call' = MergeCall(b, FALSE)
    /\ UNCHANGED <<token_file, gpx_dir, remote, pc, outcome, token, local_ids,
                   page, idx, rate_limit_usage, fetch_ret, gpx_at_start,
                   pages_seen, tracing, previous, trace, token_call, stream_call>>

MergeAgain ==
    /\ pc = "merge"
    /\ merge_call.batch # <<>>
    /\ ~merge_call.again
    /\ update_local_db(new_activities)
    /\ merge_call' = MergeCall(new_activities, TRUE)
    /\ UNCHANGED <<token_file, gpx_dir, remote, pc, outcome, token, local_ids,
                   new_activities, page, idx, rate_limit_usage, fetch_ret,
                   gpx_at_start, pages_seen, tracing, previous, trace, token_call,
                   stream_call>>

InitMerge ==
    /\ token_file = <<FreshCred>>
    /\ gpx_dir = <<>>
    /\ parquet = <<>>
    /\ csv = <<>>
    /\ remote = <<>>
    /\ tracing = TRUE
    /\ pc = "merge"
    /\ outcome = "running"
    /\ token = "old"
    /\ local_ids = {}
    /\ new_activities = <<>>
    /\ page = 1
    /\ idx = 1
    /\ rate_limit_usage = <<>>
    /\ fetch_ret = "list"
    /\ gpx_at_start = <<>>
    /\ pages_seen = <<>>
    /\ trace = <<>>
    /\ token_call = NoTokenCall
    /\ stream_call = NoStreamCall
    /\ merge_call = NoMergeCall
    /\ previous = <<>>

NextMerge ==
    \/ MergeBatch(Batches)
    \/ MergeAgain

SpecMerge == InitMerge /\ [][NextMerge]_vars

(***************************************************************************)
(* SpecRun: one whole run, recorded in trace, without a credential file or  *)
(* with an expiring one, from every set of local track files, on every     *)
(* remote list, with quota headers on the list and stream responses and    *)
(* every kind of stream answer.                                            *)
(***************************************************************************)
RunTokenFiles == {<<>>, <<Cred("old", Lookahead - 1)>>}

GoodStreams == StreamSet(<<LatlngData(2)>>, <<>>, <<>>)

RunStreamSets ==
    {StreamSet(<<>>, <<AltitudeData(1)>>, <<>>),
     StreamSet(<<LatlngData(0)>>, <<>>, <<>>),
     GoodStreams,
     StreamSet(<<LatlngData(2)>>, <<AltitudeData(1)>>, <<>>)}

\* Every kind of answer without quota headers, and with quota headers at
\* and above 90% a good answer and (above 90%) a failed one.
RunStreamResponses ==
    {r \in StreamResponses(RunStreamSets, {<<>>})
            \cup {[kind |-> "response", status |-> 200, body |-> GoodStreams,
                   headers |-> h] : h \in {RateHeader(135), RateHeader(136)}}
            \cup {[kind |-> "response", status |-> 500, body |-> <<>>,
                   headers |-> RateHeader(136)]} :
        TRUE}

ListHeaders == {<<>>, RateHeader(136)}

InitRun ==
    /\ token_file \in RunTokenFiles
    /\ gpx_dir \in {[s \in S |-> SomeTrack] : S \in SUBSET {Str(i) : i \in ActivityIds}}
    /\ parquet = <<>>
    /\ csv = <<>>
    /\ remote \in Remotes
    /\ tracing = TRUE
    /\ IdleLocals

NextRun ==
    \/ StartSync(EarlyNows, RefreshResponses)
    \/ FetchPage(ListHeaders)
    \/ ProcessActivity(RunStreamResponses)
    \/ Merge

SpecRun == InitRun /\ [][NextRun]_vars

(***************************************************************************)
(* SpecResume: run after run against a remote list that stays as it is,    *)
(* from a fresh installation, each run recorded in trace and summed up in  *)
(* previous when it ends.                                                  *)
(***************************************************************************)
InitResume ==
    /\ token_file = <<FreshCred>>
    /\ gpx_dir = <<>>
    /\ parquet = <<>>
    /\ csv = <<>>
    /\ remote \in Remotes
    /\ tracing = TRUE
    /\ IdleLocals

NextResume ==
    \/ StartSync(EarlyNows, RefreshResponses)
    \/ FetchPage(NoHeaders)
    \/ ProcessActivity(MainStreamResponses)
    \/ Merge
    \/ Finish

SpecResume == InitResume /\ [][NextResume]_vars

(***************************************************************************)
(* The claims.                                                             *)
(***************************************************************************)
IdsOf(acts) == [i \in 1..Len(acts) |-> acts[i].id]

\* The ids the run knew when it started, as the file stems they are.
KnownAtStart == DOMAIN gpx_at_start

HasKnown(items) == \E k \in 1..Len(items) : Str(items[k].id) \in KnownAtStart

\* The items of all requested pages, in page order then in-page order.
SeenItems == Flatten([i \in 1..Len(pages_seen) |-> pages_seen[i].items])

\* C1: pages are requested in the order 1, 2, 3, ...; a requested page that
\* holds a known id (at any position) or is empty is the last one requested
\* in the run, and no request is pending after it.
C1_NoPageAfterBoundary ==
    /\ \A i \in 1..Len(pages_seen) : pages_seen[i].page = i
    /\ \A i \in 1..Len(pages_seen) :
         (pages_seen[i].items = <<>> \/ HasKnown(pages_seen[i].items))
           => (i = Len(pages_seen) /\ pc # "fetch")
    /\ pc = "fetch" => page = Len(pages_seen) + 1

\* C1 witness: pagination stopped on page 1, whose known id is its last
\* item after two new ones, although the remote holds a second page.
C1_Witness ==
    /\ pc = "loop"
    /\ Len(pages_seen) = 1
    /\ Len(remote) = 2
    /\ Len(pages_seen[1].items) = 3
    /\ Str(pages_seen[1].items[3].id) \in KnownAtStart
    /\ ~HasKnown(SubSeq(pages_seen[1].items, 1, 2))

C2_Case ==
    /\ fetch_ret # "pending"
    /\ KnownAtStart = {Str(101)}
    /\ IdsOf(pages_seen[1].items) = <<205, 204, 101, 203>>

\* C2 as stated: known ids {101}, page 1 = [205, 204, 101, 203] gives the new
\* activities [205, 204], and page 2 is never requested.
C2_ScenarioAsStated ==
    C2_Case => (IdsOf(new_activities) = <<205, 204>> /\ Len(pages_seen) = 1)

\* C2 as amended: known ids {101}, page 1 = [205, 204, 101, 203] gives the new
\* activities [205, 204, 203] (203 follows the known id and is still taken),
\* and page 2 is never requested.
C2_ScenarioAmended ==
    C2_Case => (/\ IdsOf(new_activities) = <<205, 204, 203>>
                /\ fetch_ret = "list"
                /\ Len(pages_seen) = 1)

\* C2 witness: the scenario, with a second page on the remote.
C2_Witness == C2_Case /\ Len(remote) = 2 /\ pc = "loop"

\* C3: the list delta discovery builds is the items of the requested pages
\* whose id is not known, in page order then in-page order; it is returned
\* as that list, or as None when it is empty.
C3_ResultIsUnknownItems ==
    /\ new_activities = SelectSeq(SeenItems, LAMBDA a : Str(a.id) \notin KnownAtStart)
    /\ fetch_ret = "list" => new_activities # <<>>
    /\ fetch_ret = "None" => new_activities = <<>>

\* C3 witness: a returned list whose last item followed a known id in its
\* page.
C3_Witness ==
    /\ fetch_ret = "list"
    /\ \E i \in 1..Len(pages_seen) :
         LET items == pages_seen[i].items IN
         \E k \in 2..Len(items) :
            /\ Str(items[k - 1].id) \in KnownAtStart
            /\ Str(items[k].id) \notin KnownAtStart
            /\ new_activities[Len(new_activities)] = items[k]

\* C4: a run requests no streams for an id that was known when it started,
\* and every track file of such an id stays as it was.
C4_KnownIdsUntouched ==
    /\ stream_call.called => Str(stream_call.id) \notin KnownAtStart
    /\ \A s \in KnownAtStart : s \in DOMAIN gpx_dir /\ gpx_dir[s] = gpx_at_start[s]
    /\ pc \in {"fetch", "loop", "merge"} => local_ids = KnownAtStart

\* C4 witness: a run that met a known id on a page it requested, fetched the
\* streams of a new activity and reached the merge.
C4_Witness ==
    /\ pc = "merge"
    /\ stream_call.called
    /\ HasKnown(SeenItems)

\* C5 as stated: with expires_at <= now + 300 there is exactly one refresh
\* call, and a call that returns has persisted the refreshed credential and
\* returns its access token.
C5_RefreshAtOrInsideWindow ==
    (/\ token_call.called
     /\ load_token(token_call.before).body # <<>>
     /\ token_call.before[1].expires_at <= token_call.now + Lookahead)
    => /\ token_call.posts = 1
       /\ ~token_call.raised =>
            /\ token_file = <<token_call.resp[1].body>>
            /\ token_call.value = token_call.resp[1].body.access_token

\* C5 as amended: with expires_at < now + 300 there is exactly one refresh
\* call, and a call that returns has persisted the refreshed credential and
\* returns its access token, which sync then uses.
C5_RefreshInsideWindow ==
    (/\ token_call.called
     /\ load_token(token_call.before).body # <<>>
     /\ token_call.before[1].expires_at < token_call.now + Lookahead)
    => /\ token_call.posts = 1
       /\ ~token_call.raised =>
            /\ token_file = <<token_call.resp[1].body>>
            /\ token_call.value = token_call.resp[1].body.access_token
            /\ token = token_call.value
            /\ pc = "fetch"

\* C5 witness: a credential one unit inside the window was refreshed and the
\* new access token returned.
C5_Witness ==
    /\ token_call.called
    /\ load_token(token_call.before).body # <<>>
    /\ token_call.before[1].expires_at = token_call.now + Lookahead - 1
    /\ ~token_call.raised
    /\ token = "new"
    /\ token_file # token_call.before

\* C6: a second call in a row with the same batch, the first one made on an
\* existing dataset file, leaves the rows (count and contents) of the first.
C6_MergeIdempotent ==
    (merge_call.again /\ merge_call.before_first[1] # <<>>)
    => /\ parquet = merge_call.before[1]
       /\ csv = parquet

\* C6 witness: the same batch, holding one id twice, merged twice into a
\* dataset that already had a row of that id.
C6_Witness ==
    /\ merge_call.again
    /\ merge_call.before_first[1] # <<>>
    /\ Len(merge_call.batch[1]) = 2
    /\ merge_call.batch[1][1].id = merge_call.batch[1][2].id
    /\ merge_call.batch[1][1] # merge_call.batch[1][2]
    /\ \E i \in 1..Len(merge_call.before_first[1][1]) :
          merge_call.before_first[1][1][i].id = merge_call.batch[1][1].id

NoTwoRowsShareAnId(rows) ==
    \A i, j \in 1..Len(rows) : i # j => rows[i].id # rows[j].id

\* C7: the persisted dataset never holds two rows with the same id.
C7_DatasetIdsUnique == parquet # <<>> => NoTwoRowsShareAnId(parquet[1])

\* C8: after update_local_db(batch) on an existing dataset the ids are those
\* of the batch and of the old rows, an id of the batch has a row of the
\* batch, and every old row of another id is still a row of the dataset.
C8_MergeOnExisting ==
    (merge_call.batch # <<>> /\ merge_call.before[1] # <<>>)
    => LET batch == merge_call.batch[1]
           old == merge_call.before[1][1]
           rows == parquet[1]
           InBatch(r) == \E k \in 1..Len(batch) : batch[k].id = r.id
       IN  /\ Range(IdsOf(rows)) = Range(IdsOf(batch)) \cup Range(IdsOf(old))
           /\ \A i \in 1..Len(rows) : InBatch(rows[i]) => rows[i] \in Range(batch)
           /\ \A i \in 1..Len(old) : ~InBatch(old[i]) => old[i] \in Range(rows)

StreamsOfCall == stream_call.resp.body

PositionsOfCall == StreamsOfCall["latlng"].data

CallBuilt == stream_call.called /\ stream_call.built

\* C9: a position channel of length N >= 1 without elevation and time-offset
\* channels gives one segment of N points in position order, each with
\* elevation 0 and the i-th (from 0) at start time + i.
C9_DefaultChannels ==
    (/\ CallBuilt
     /\ DOMAIN StreamsOfCall = {"latlng"}
     /\ Len(PositionsOfCall) >= 1)
    => /\ ~stream_call.gpx.raised
       /\ stream_call.gpx.exists
       /\ Len(stream_call.gpx.data) = 1
       /\ LET points == stream_call.gpx.data[1] IN
          /\ Len(points) = Len(PositionsOfCall)
          /\ \A i \in 1..Len(points) :
               /\ points[i].latitude = PositionsOfCall[i][1]
               /\ points[i].longitude = PositionsOfCall[i][2]
               /\ points[i].elevation = 0
               /\ points[i].time = stream_call.activity.start_date + (i - 1)

\* C9 witness: a track of MaxChannelLen points was built from a position
\* channel alone and written.
C9_Witness ==
    /\ CallBuilt
    /\ DOMAIN StreamsOfCall = {"latlng"}
    /\ Len(PositionsOfCall) = MaxChannelLen
    /\ Str(stream_call.id) \in DOMAIN gpx_dir
    /\ Len(gpx_dir[Str(stream_call.id)][1]) = MaxChannelLen

ChannelMismatch ==
    /\ CallBuilt
    /\ "latlng" \in DOMAIN StreamsOfCall
    /\ PositionsOfCall # <<>>
    /\ \E k \in {"altitude", "time"} \cap DOMAIN StreamsOfCall :
          Len(StreamsOfCall[k].data) # Len(PositionsOfCall)

\* C10: with a non-empty position channel and a present elevation or
\* time-offset channel of another length, create_gpx raises and gives no
\* track, and the run writes no track file for the activity.
C10_MismatchRaises ==
    ChannelMismatch
    => /\ stream_call.gpx.raised
       /\ ~stream_call.gpx.exists
       /\ stream_call.gpx.data = <<>>
       /\ gpx_dir = stream_call.before
       /\ Str(stream_call.id) \notin DOMAIN gpx_dir
       /\ pc = "done"
       /\ outcome = "ValueError"

\* C10 witness: an elevation channel shorter than the position channel, the
\* time-offset channel of the right length.
C10_Witness ==
    /\ ChannelMismatch
    /\ {"altitude", "time"} \subseteq DOMAIN StreamsOfCall
    /\ Len(StreamsOfCall["altitude"].data) < Len(PositionsOfCall)
    /\ Len(StreamsOfCall["time"].data) = Len(PositionsOfCall)

\* C11: when the stream request of the k-th new activity answers with a
\* status >= 400 other than 404, nothing is written for that request; if the
\* activity is not the last one the loop is at the next activity or has
\* already requested its streams; if it is the last one the merge is the next
\* step or has been made, once, with the whole list.
C11_StatusErrorIsolated ==
    \A k \in 1..Count("streams") :
        FailedStatus(StatusOfCall(k)) =>
          /\ EventsOf("streams")[k][2] = new_activities[k].id
          /\ \A i \in 1..Len(EventsOfCall(k)) : EventsOfCall(k)[i][1] # "write"
          /\ k < Len(new_activities) =>
                \/ k < Count("streams")
                \/ pc = "loop" /\ idx = k + 1
          /\ k = Len(new_activities) =>
                \/ pc = "merge" /\ Count("merge") = 0
                \/ /\ pc = "done"
                   /\ outcome = "synced"
                   /\ Count("merge") = 1
                   /\ merge_call.batch = <<new_activities>>

\* C11 witness: the first of two new activities got status 500, the track of
\* the second was written and the run ended with the merge of both.
C11_Witness ==
    /\ pc = "done"
    /\ outcome = "synced"
    /\ Len(new_activities) = 2
    /\ Count("streams") = 2
    /\ StatusOfCall(1) = 500
    /\ trace[Len(trace) - 3] = Event("write", new_activities[2].id)
    /\ Len(parquet[1]) = 2

\* The last stream request ended the run with an exception that the loop
\* does not catch.
CallAborted(k) ==
    /\ k = Count("streams")
    /\ pc = "done"
    /\ outcome \in {"TransportError", "ValueError"}

DelaysOfCall(k) ==
    Len(SelectSeq(EventsOfCall(k), LAMBDA e : e[1] = "delay"))

\* C12: every stream-fetch attempt of the loop that ended in a success, a
\* 'not found' absence or a skip after a failed status is followed by exactly
\* one fixed delay before the next network call.
C12_DelayAfterEveryAttempt ==
    \A k \in 1..Count("streams") :
        ~CallAborted(k) => DelaysOfCall(k) = 1

\* The short-window pair of a response's quota headers is above 90%.
Above90(headers) ==
    /\ headers # <<>>
    /\ headers[1].usage[1] * 10 > headers[1].limit[1] * 9

C14_ListResponsesGoverned ==
    \A i \in 1..Len(pages_seen) :
        LET h == pages_seen[i].headers IN
        /\ (h # <<>> /\ i = Len(pages_seen) /\ Count("streams") = 0)
             => /\ rate_limit_usage # <<>>
                /\ rate_limit_usage[1]["15min"].used = h[1].usage[1]
        /\ Above90(h)
             => /\ PosOf("list", i) < Len(trace)
                /\ trace[PosOf("list", i) + 1] = Event("sleep", Cooldown)

\* Delta discovery has ended and no item of the pages it requested is new.
NothingNew ==
    /\ fetch_ret # "pending"
    /\ SelectSeq(SeenItems, LAMBDA a : Str(a.id) \notin KnownAtStart) = <<>>

\* C15: when delta discovery yields no new activity the run returns at
\* once: no stream request, no call of update_local_db, and no step of the
\* run up to there changes the dataset files or a track file.
C15_NothingNewNothingDone ==
    /\ [](NothingNew =>
            /\ fetch_ret = "None"
            /\ pc = "done"
            /\ outcome = "up_to_date"
            /\ ~stream_call.called
            /\ merge_call = NoMergeCall
            /\ gpx_dir = gpx_at_start)
    /\ [][(pc' = "fetch" \/ NothingNew') =>
            (parquet' = parquet /\ csv' = csv /\ gpx_dir' = gpx_dir)]_vars

\* C15 witness: a run over a non-empty list all of whose items were known,
\* with a dataset file on disk.
C15_Witness ==
    /\ NothingNew
    /\ SeenItems # <<>>
    /\ parquet # <<>>

\* C15 witness, the other case: the first page was empty.
C15_WitnessEmptyPage ==
    /\ NothingNew
    /\ Len(pages_seen) = 1
    /\ SeenItems = <<>>

\* The per-activity loop has run to its end over a non-empty list.
LoopEnded == new_activities # <<>> /\ idx = Len(new_activities) + 1

\* C16: update_local_db is called at most once in a run; a run whose loop
\* ran to its end calls it exactly once, as its last step, after one stream
\* request per discovered activity in list order, with the whole discovered
\* list, and every discovered summary, skipped for its track or not, is
\* then a row of the dataset.
C16_MergeOnceAtEnd ==
    /\ Count("merge") <= 1
    /\ Count("merge") = 1 =>
          /\ trace[Len(trace)] = Event("merge", 0)
          /\ LoopEnded
          /\ IdsOf(new_activities) = [k \in 1..Count("streams") |->
                                        EventsOf("streams")[k][2]]
          /\ new_activities
               = SelectSeq(SeenItems, LAMBDA a : Str(a.id) \notin KnownAtStart)
          /\ merge_call.batch = <<new_activities>>
          /\ \A k \in 1..Len(new_activities) :
                new_activities[k] \in Range(parquet[1])
    /\ LoopEnded => \/ pc = "merge" /\ Count("merge") = 0
                    \/ pc = "done" /\ Count("merge") = 1

\* C16 witness: two new activities, the first answered 'not found', the
\* second with status 500; no track was written and both are in the dataset.
C16_Witness ==
    /\ Count("merge") = 1
    /\ Len(new_activities) = 2
    /\ new_activities[1].id # new_activities[2].id
    /\ StatusOfCall(1) = HttpNotFound
    /\ StatusOfCall(2) = 500
    /\ gpx_dir = gpx_at_start
    /\ Len(parquet[1]) = 2

\* C17: the client is opened at most once and every list or stream request
\* is made while it is open; a run that opened it and has ended, in any way,
\* has closed it once; it is closed when the merge is about to start, the
\* close comes before the merge, and no request comes after the close.
C17_ClientClosedOnEveryPath ==
    /\ Count("open") <= 1
    /\ Count("close") <= Count("open")
    /\ pc \in {"fetch", "loop"} => Count("open") = 1 /\ Count("close") = 0
    /\ pc \in {"merge", "done"} => Count("close") = Count("open")
    /\ Count("merge") = 1 =>
          /\ Count("close") = 1
          /\ PosOf("close", 1) < PosOf("merge", 1)
          /\ \A i \in PosOf("merge", 1)..Len(trace) : ~IsRequest(trace[i])
    /\ \A i \in 1..Len(trace) :
          trace[i][1] \in {"list", "streams"} =>
            /\ Count("open") = 1
            /\ PosOf("open", 1) < i
            /\ Count("close") = 1 => i < PosOf("close", 1)

\* C17 witness: the second stream request of a run raised in create_gpx and
\* ended the run; the client was closed.
C17_Witness ==
    /\ pc = "done"
    /\ outcome = "ValueError"
    /\ Count("streams") = 2
    /\ trace[Len(trace)] = Event("close", 0)

\* A list request of the run got no response or an error response.
ListFailed == Count("list_failed") >= 1

\* C18: when a list request fails the run ends there with the exception: no
\* stream request, no track file written, no call of update_local_db, the
\* track and dataset files as they were, whatever earlier pages returned.
C18_ListFailureAbortsRun ==
    ListFailed =>
      /\ pc = "done"
      /\ outcome \in {"TransportError", "TypeError"}
      /\ trace[Len(trace) - 1] = Event("list_failed", Len(pages_seen) + 1)
      /\ Count("streams") = 0
      /\ ~stream_call.called
      /\ Count("write") = 0
      /\ gpx_dir = gpx_at_start
      /\ Count("merge") = 0
      /\ merge_call = NoMergeCall
      /\ parquet = <<>>
      /\ csv = <<>>

\* C18 witness: page 1 returned a new activity and the request of page 2
\* failed.
C18_Witness ==
    /\ ListFailed
    /\ Len(pages_seen) = 1
    /\ new_activities # <<>>
    /\ Count("list") = 2

\* C19: without a credential file get_valid_token raises
\* MissingStravaTokenError, makes no refresh call and creates no file, and the
\* run ends there: no client, no list request, no stream request.
C19_MissingCredentialAborts ==
    (token_call.called /\ token_call.before = <<>>)
    => /\ token_call.raised
       /\ token_call.error = "MissingStravaTokenError"
       /\ token_call.posts = 0
       /\ token_file = <<>>
       /\ pc = "done"
       /\ outcome = "MissingStravaTokenError"
       /\ trace = <<>>
       /\ pages_seen = <<>>
       /\ ~stream_call.called

\* C19 witness: a run without a credential file against a remote list that
\* holds activities.
C19_Witness ==
    /\ token_call.called
    /\ token_call.before = <<>>
    /\ remote # <<>>
    /\ pc = "done"

\* The refresh call of the run failed: no response, or an error response.
RefreshFailed ==
    /\ token_call.called
    /\ token_call.posts > 0
    /\ token_call.resp[1].kind \in {"transport_error", "http_error"}

\* C20: when the refresh call fails get_valid_token raises and returns no
\* token, exactly one refresh call was made, and the run ends there: no
\* client, no list request.
C20_RefreshFailureAborts ==
    RefreshFailed
    => /\ token_call.raised
       /\ token_call.value = ""
       /\ token = ""
       /\ token_call.posts = 1
       /\ pc = "done"
       /\ outcome = token_call.error
       /\ trace = <<Event("refresh", 0)>>
       /\ pages_seen = <<>>

\* C20 witness: the token endpoint answered the refresh of an expiring
\* credential with an error status, the remote list holding activities.
C20_Witness ==
    /\ RefreshFailed
    /\ token_call.resp[1].kind = "http_error"
    /\ token_call.error = "KeyError"
    /\ remote # <<>>

\* C21: with a stored credential whose expires_at is not below now + 300
\* get_valid_token makes no refresh call, leaves the credential file as it
\* was and returns the stored access token, with which the run goes on.
C21_NoRefreshOutsideWindow ==
    (/\ token_call.called
     /\ load_token(token_call.before).body # <<>>
     /\ token_call.before[1].expires_at >= token_call.now + Lookahead)
    => /\ ~token_call.raised
       /\ token_call.posts = 0
       /\ token_call.resp = <<>>
       /\ token_file = token_call.before
       /\ token_call.value = token_call.before[1].access_token
       /\ token = token_call.value
       /\ pc = "fetch"

\* C21 witness: a credential one unit outside the window, read at a late
\* clock reading; the stored token "older" is the one returned.
C21_Witness ==
    /\ token_call.called
    /\ token_call.now = MaxNow
    /\ token_call.before = <<Cred("older", MaxNow + Lookahead + 1)>>
    /\ token = "older"
    /\ token_file = token_call.before

\* C22: a channel-length mismatch in the k-th new activity does not end the
\* run: if the activity is not the last one the loop is at the next
\* activity, and if it is the last one the merge is the next step or has
\* been made with the whole list.
C22_MismatchIsolated ==
    ChannelMismatch =>
      LET k == Count("streams") IN
      /\ k < Len(new_activities) => pc = "loop" /\ idx = k + 1
      /\ k = Len(new_activities) =>
            \/ pc = "merge"
            \/ /\ pc = "done"
               /\ outcome = "synced"
               /\ merge_call.batch = <<new_activities>>

\* C23: no step of any run removes a track file or changes the content of
\* one that exists.
C23_TracksWriteOnce ==
    [][\A s \in DOMAIN gpx_dir :
          s \in DOMAIN gpx_dir' /\ gpx_dir'[s] = gpx_dir[s]]_vars

\* C23 witness: a track was built for an id whose track file existed (the
\* list held the id twice), different from the file's content, and the file
\* kept what it had.
C23_Witness ==
    /\ CallBuilt
    /\ stream_call.gpx.exists
    /\ Str(stream_call.id) \in DOMAIN stream_call.before
    /\ stream_call.gpx.data # stream_call.before[Str(stream_call.id)]
    /\ gpx_dir = stream_call.before

\* C24: no stream request is made, and no track built, for an activity
\* whose track file exists when its turn in the loop comes.
C24_ExistingTrackBypassed ==
    stream_call.called => Str(stream_call.id) \notin DOMAIN stream_call.before

\* The last stream request was answered 'not found', or with streams whose
\* position channel is absent or empty.
NoTrackData ==
    /\ stream_call.called
    /\ stream_call.resp.kind = "response"
    /\ \/ stream_call.resp.status = HttpNotFound
       \/ /\ stream_call.resp.status = 200
          /\ \/ "latlng" \notin DOMAIN StreamsOfCall
             \/ PositionsOfCall = <<>>

\* C25: an activity without usable track data raises nothing and gets no
\* track file; the one fixed delay is made and the loop is at the next
\* activity, or, after the last one, the merge is the next step or has been
\* made with the whole list, and the activity's summary is in the dataset.
C25_NoTrackDataIsNoError ==
    NoTrackData =>
      LET k == Count("streams") IN
      /\ ~stream_call.raised
      /\ ~stream_call.gpx.raised
      /\ ~stream_call.gpx.exists
      /\ gpx_dir = stream_call.before
      /\ DelaysOfCall(k) = 1
      /\ outcome \in {"running", "synced"}
      /\ new_activities[k] = stream_call.activity
      /\ k < Len(new_activities) => pc = "loop" /\ idx = k + 1
      /\ k = Len(new_activities) =>
            \/ pc = "merge"
            \/ /\ pc = "done"
               /\ outcome = "synced"
               /\ merge_call.batch = <<new_activities>>
               /\ stream_call.activity \in Range(parquet[1])

\* C25 witness: of two new activities the first was answered 'not found' and
\* the second with an empty position channel; the run merged both and wrote
\* no track.
C25_Witness ==
    /\ NoTrackData
    /\ Count("streams") = 2
    /\ StatusOfCall(1) = HttpNotFound
    /\ stream_call.resp.status = 200
    /\ "latlng" \in DOMAIN StreamsOfCall
    /\ new_activities[1].id # new_activities[2].id
    /\ pc = "done"
    /\ Len(parquet[1]) = 2
    /\ gpx_dir = gpx_at_start

\* The run has completed: it merged, or it found nothing new.
RunCompleted == pc = "done" /\ outcome \in {"synced", "up_to_date"}

\* C26: when the run before wrote track files and ended in an exception
\* before the merge, then once this run has completed every id with a track
\* file has a row in the dataset.
C26_ResumeCompletesDataset ==
    (/\ previous # <<>>
     /\ previous[1].wrote_then_aborted
     /\ RunCompleted)
    => \A s \in DOMAIN gpx_dir :
          /\ parquet # <<>>
          /\ \E i \in 1..Len(parquet[1]) : Str(parquet[1][i].id) = s

\* C27: when the run before completed with every stream request answered
\* 200 (with or without GPS data) and the remote list is the same, the
\* discovery of this run finds nothing new after one list page, and the run
\* makes no stream request.
C27_NextRunFindsNothing ==
    (/\ previous # <<>>
     /\ previous[1].completed
     /\ previous[1].all_ok
     /\ fetch_ret # "pending")
    => /\ fetch_ret = "None"
       /\ new_activities = <<>>
       /\ Len(pages_seen) = 1
       /\ ~stream_call.called

\* Every stream request of this run was answered 200 and the activity has
\* its track file.
AllStreamsSucceeded ==
    \A k \in 1..Count("streams") :
        /\ StatusOfCall(k) = 200
        /\ Str(EventsOf("streams")[k][2]) \in DOMAIN gpx_dir

\* C29: when in the run before the stream request of an activity failed
\* after the track of a more recent one had been written, and this run, on
\* the same remote list, has completed with every request succeeding, the
\* failed activity has its track file.  (A completed run that leaves it
\* without one never requested it, and neither will any later run: the page
\* of the first known id ends every pagination.)
C29_FailedFetchGetsTrack ==
    (/\ previous # <<>>
     /\ previous[1].failed # {}
     /\ RunCompleted
     /\ AllStreamsSucceeded)
    => \A id \in previous[1].failed : Str(id) \in DOMAIN gpx_dir

\* C28: when the token endpoint answers the refresh call with an error body
\* get_valid_token raises, and the credential file still holds the
\* credential it held before, which load_token can read.
C28_FailedRefreshKeepsCredential ==
    (/\ token_call.called
     /\ token_call.posts > 0
     /\ token_call.resp[1].kind = "http_error")
    => /\ token_call.raised
       /\ token_file = token_call.before
       /\ ~load_token(token_file).raised
       /\ ~load_token(token_file).none

====
